---- MODULE Spec2Model ----
(***************************************************************************)
(* Model of the two Prometheus exporters of wunderground2prom:             *)
(*   river_flow.py    polls the Vigicrues API for river flow and height,   *)
(*   wunderground.py  polls the Weather Underground API for PWS readings.  *)
(* Both are a single-threaded poll loop that writes labelled gauges and    *)
(* per-station health gauges, and start the metrics endpoint after the     *)
(* first cycle.  Init chooses which of the two processes runs.             *)
(*                                                                         *)
(* Values.  A Python/JSON value is a tagged tuple: Num(n) is a number,     *)
(* None is Python's None (JSON null), Bad is a string float() rejects.     *)
(* River readings are in tenths (123 is 12.3), temperatures in hundredths  *)
(* of a degree (2005 is 20.05), durations in half time units so that the   *)
(* mean of two durations is exact.  Gauges hold plain integers: a gauge    *)
(* child is created by .labels() with the value 0.                         *)
(***************************************************************************)
EXTENDS Integers, Sequences, FiniteSets, TLC

\* ------------------------------------------------------------------ bounds
\* Number of poll cycles the model runs.
MaxCycles == 2
\* Longest observation series of a Vigicrues response (SpecFetch).
MaxLen == 3

\* ------------------------------------------------------------------ values
None == <<"None">>
Bad == <<"str", "abc">>
Num(n) == <<"num", n>>
IsNum(v) == v[1] = "num"
IsNone(v) == v[1] = "None"
Val(v) == v[2]

\* The stations the model polls.  RIVER_STATIONS lists three stations and
\* stations.yaml any number; the loops treat every entry alike.
Stations == {1, 2}
NumStations == Cardinality(Stations)

\* Numeric readings a river response may carry (tenths): 0 and 12.3.
RiverReadings == {0, 123}
\* Elapsed time of a request of the poll loop: a flow ("Q") request takes 2, a
\* height ("H") request 4, a weather request 2.  No branch reads a duration.
Elapsed(serie) == IF serie = "H" THEN 4 ELSE 2

VARIABLES
    prog,                   \* which exporter runs: "river_flow" or "wunderground"
    now,                    \* time.time()
    pc,                     \* position of the main thread
    idx,                    \* station the for loop is at
    first,                  \* __main__: first
    http_starts,            \* number of start_http_server() calls so far
    cycle,                  \* number of completed while-loop iterations
    current_time,           \* local of update_river_data / get_wunderground
    response, result,       \* a single call of a fetcher: what the network
                            \* returns, what the call does
    \* ---- river_flow.py
    river_series,           \* metric name -> stations whose child exists
    RIVERS_FLOW, RIVERS_HEIGHT,
    RIVER_LAST_FETCH_TIME, RIVER_LAST_FETCH_DURATION,
    RIVER_SUCCESSFUL_REQUESTS_TOTAL, RIVER_DATA_LAST_CHANGE,
    previous_river_data,    \* station -> NoEntry or <<flow, height>>
    successful_river_requests,
    flow_value, height_value, total_requests, successful_durations,
    \* ---- wunderground.py
    config_changed,         \* stations.yaml's hash differs from initial_config_hash
    config_readable,        \* the last open(config_file) succeeded
    weather_series,         \* stations whose labelled children exist
    weather_gauges,         \* station -> PROPS key -> value of its labelled gauge
    last_fetch_time, last_fetch_duration, successful_requests_total,
    temperature_last_change,
    previous_temperatures,  \* station -> NoEntry or the cached temperature
    successful_request_counts,
    data, fetch_duration, current_temp,
    key_pos,                \* position of "for key, gauge in metrics.items()"
    \* ---- history of the current cycle (not program state)
    status,                 \* station -> "pending" | "running" | "returned" | "raised"
    failures,               \* station -> sub-fetches of this cycle that gave no value
    successes,              \* station -> sub-fetches of this cycle that gave a reading
    seen,                   \* station -> tracked fields ever read as a number
    before,                 \* station -> its health values when the cycle began
    requests                \* station -> the requests made for it in this cycle

river_vars == <<river_series, RIVERS_FLOW, RIVERS_HEIGHT, RIVER_LAST_FETCH_TIME,
                RIVER_LAST_FETCH_DURATION, RIVER_SUCCESSFUL_REQUESTS_TOTAL,
                RIVER_DATA_LAST_CHANGE, previous_river_data,
                successful_river_requests, flow_value, height_value,
                total_requests, successful_durations>>
config_vars == <<config_changed, config_readable>>
weather_vars == <<config_vars, weather_series, weather_gauges, last_fetch_time,
                  last_fetch_duration, successful_requests_total,
                  temperature_last_change, previous_temperatures,
                  successful_request_counts, data, fetch_duration, current_temp,
                  key_pos>>
call_vars == <<response, result>>
main_vars == <<prog, now, pc, idx, first, http_starts, cycle, current_time, call_vars>>
hist_vars == <<status, failures, successes, seen, before, requests>>
vars == <<main_vars, river_vars, weather_vars, hist_vars>>

RiverMetrics == {"river_flow", "river_height", "river_last_fetch_time",
                 "river_last_fetch_duration", "river_successful_requests_total",
                 "river_data_last_change"}
NoEntry == <<"NoEntry">>
NoLocal == <<"unbound">>

\* ------------------------------------------------------- river: get_level
\* A Vigicrues response: the request times out, fails with URLError, returns
\* text that is no JSON, JSON without ["Serie"]["ObssHydro"], or a series of
\* [timestamp, value] points (a point may lack its value).
Point(v) == <<0, v>>
ShortPoint == <<0>>
SampleValues == {None, Bad} \cup {Num(n) : n \in RiverReadings}
Points == {Point(v) : v \in SampleValues}
SeriesUpTo(n) == UNION {[1..k -> Points] : k \in 0..n}
FailureKinds == {"timeout", "urlerror", "badjson", "nokeys"}
Failure(k) == [kind |-> k, series |-> <<>>]
Ok(series) == [kind |-> "ok", series |-> series]

\* What a call does: it returns the tuple (value, duration) or raises.
Return(value, duration) == <<"return", value, duration>>
Raise(exception) == <<"raise", exception>>
Raised(r) == r[1] = "raise"
\* The exception classes the fetchers meet; all derive from Exception.
Exceptions == {"socket.timeout", "URLError", "JSONDecodeError", "KeyError",
               "IndexError", "TypeError", "AttributeError"}
RequestError(kind) ==
    CASE kind = "timeout" -> "socket.timeout"
      [] kind = "urlerror" -> "URLError"
      [] kind = "badjson" -> "JSONDecodeError"
      [] kind = "nokeys" -> "KeyError"

\* Variant: the latest value is returned without the second-to-last fallback.
get_level_latest(resp, elapsed) ==
    IF resp.kind # "ok" THEN Raise(RequestError(resp.kind))
    ELSE LET obs_hydro == resp.series
             n == Len(obs_hydro)
         IN IF n = 0 THEN Return(None, None)
            ELSE IF Len(obs_hydro[n]) < 2 THEN Raise("IndexError")
            ELSE Return(obs_hydro[n][2], Num(elapsed))
\* Lines 82-137: the body of get_level's try.
get_level_try(resp, elapsed) ==
    IF resp.kind # "ok" THEN Raise(RequestError(resp.kind))
    ELSE LET obs_hydro == resp.series
             n == Len(obs_hydro)
         IN IF n = 0 THEN Return(None, None)
            ELSE IF Len(obs_hydro[n]) < 2 THEN Raise("IndexError")
            ELSE LET latest == obs_hydro[n][2]
                 IN IF IsNone(latest) /\ n > 1
                    THEN IF Len(obs_hydro[n - 1]) < 2 THEN Raise("IndexError")
                         ELSE Return(obs_hydro[n - 1][2], Num(elapsed))
                    ELSE Return(latest, Num(elapsed))

\* Variant: only the request's own errors are handled.
HandledRequestErrors(exception) == exception \in {"socket.timeout", "URLError"}
\* Lines 138-149, 182-193: except socket.timeout, except URLError and
\* except Exception all return (None, None).
Handled(exception) == exception \in Exceptions
except_clauses(r) ==
    IF Raised(r) /\ Handled(r[2]) THEN Return(None, None) ELSE r

\* Lines 76-149.
get_level(resp, elapsed) == except_clauses(get_level_try(resp, elapsed))

\* Responses the poll loop draws from.  The first station gets every failure
\* kind and every series of at most two points; the stations after it, which
\* share no state with it, get one response of each outcome: a failure, a
\* reading, a value float() rejects.
LoopResponses(s) ==
    IF s = 1
    THEN {Failure(k) : k \in FailureKinds} \cup {Ok(ser) : ser \in SeriesUpTo(2)}
    ELSE {Failure("urlerror"), Ok(<<Point(Num(123))>>), Ok(<<Point(Bad)>>)}

\* Gauge.set(value) is float(value): it raises for a value float() rejects.
SetRaises(v) == ~IsNum(v)
\* Variant: the value is written under the labels of the first station.
SetFirstStation(gauge, s, v) == [gauge EXCEPT ![1] = Val(v)]
\* gauge.labels(...station...).set(value)
Set(gauge, s, v) == [gauge EXCEPT ![s] = Val(v)]
\* if flow_value is not None: / if height_value is not None:
IsSuccess(value) == ~IsNone(value)

\* ------------------------------------------------ river: update_river_data
Sum(durs) == IF Len(durs) = 0 THEN 0
             ELSE IF Len(durs) = 1 THEN durs[1] ELSE durs[1] + durs[2]
\* avg_duration = sum(successful_durations) / len(successful_durations)
avg_duration(durs) == Sum(durs) \div Len(durs)
\* Variant: the health block runs whatever the number of successes.
HadSuccessOrNot(n) == n >= 0
\* if total_requests > 0:
HadSuccess(n) == n > 0
\* successful_river_requests.get(station_key, 0) + total_requests
NewRequestCount(old, n) == old + n
\* previous_data.get(key): None for a missing entry or key
PreviousGet(prev, key) == IF prev = NoEntry THEN None ELSE prev[key]
\* value is not None and previous_data.get(key) != value
FieldChanged(prev, key, value) == ~IsNone(value) /\ PreviousGet(prev, key) # value
\* data_changed after the loop over current_data.items()
data_changed(prev, flow, height) ==
    FieldChanged(prev, 1, flow) \/ FieldChanged(prev, 2, height)

HealthOf(s) == <<RIVER_LAST_FETCH_TIME[s], RIVER_LAST_FETCH_DURATION[s],
                 RIVER_SUCCESSFUL_REQUESTS_TOTAL[s], successful_river_requests[s],
                 RIVER_DATA_LAST_CHANGE[s], previous_river_data[s]>>

ClearRiverLocals ==
    /\ flow_value' = NoLocal
    /\ height_value' = NoLocal
    /\ total_requests' = 0
    /\ successful_durations' = <<>>

\* History of the current cycle.
NoteFailure ==
    /\ failures' = [failures EXCEPT ![idx] = @ + 1]
    /\ UNCHANGED <<successes, seen>>
NoteReading(field) ==
    /\ successes' = [successes EXCEPT ![idx] = @ + 1]
    /\ seen' = [seen EXCEPT ![idx] = @ \cup {field}]
    /\ UNCHANGED failures
NoteNothing == UNCHANGED <<failures, successes, seen>>
Requested(serie) == requests' = [requests EXCEPT ![idx] = Append(@, serie)]

\* Lines 152-174: read the clock, create the six labelled children.
R_Enter ==
    /\ prog = "river_flow" /\ pc = "station" /\ idx <= NumStations
    /\ current_time' = now
    /\ river_series' = [m \in RiverMetrics |-> river_series[m] \cup {idx}]
    /\ total_requests' = 0
    /\ successful_durations' = <<>>
    /\ status' = [status EXCEPT ![idx] = "running"]
    /\ pc' = "flow"
    /\ UNCHANGED <<call_vars, weather_vars, prog, now, idx, first, http_starts, cycle, RIVERS_FLOW,
                   RIVERS_HEIGHT, RIVER_LAST_FETCH_TIME, RIVER_LAST_FETCH_DURATION,
                   RIVER_SUCCESSFUL_REQUESTS_TOTAL, RIVER_DATA_LAST_CHANGE,
                   previous_river_data, successful_river_requests, flow_value,
                   height_value, failures, successes, seen, before, requests>>

\* Lines 176-184: fetch the flow, set its gauge.
R_Flow ==
    /\ prog = "river_flow" /\ pc = "flow"
    /\ Requested("Q")
    /\ \E resp \in LoopResponses(idx) :
         LET r == get_level(resp, Elapsed("Q")) IN
         IF Raised(r)
         THEN /\ pc' = "except"
              /\ status' = [status EXCEPT ![idx] = "raised"]
              /\ NoteNothing
              /\ UNCHANGED <<flow_value, RIVERS_FLOW, total_requests, successful_durations>>
         ELSE
         /\ flow_value' = r[2]
         /\ IF ~IsSuccess(r[2])
            THEN /\ NoteFailure
                 /\ pc' = "height"
                 /\ UNCHANGED <<RIVERS_FLOW, total_requests, successful_durations, status>>
            ELSE IF SetRaises(r[2])
            THEN /\ pc' = "except"
                 /\ status' = [status EXCEPT ![idx] = "raised"]
                 /\ NoteNothing
                 /\ UNCHANGED <<RIVERS_FLOW, total_requests, successful_durations>>
            ELSE /\ RIVERS_FLOW' = Set(RIVERS_FLOW, idx, r[2])
                 /\ total_requests' = total_requests + 1
                 /\ successful_durations' = Append(successful_durations, Val(r[3]))
                 /\ NoteReading("flow")
                 /\ pc' = "height"
                 /\ UNCHANGED status
    /\ UNCHANGED <<call_vars, weather_vars, prog, now, idx, first, http_starts, cycle, current_time,
                   river_series, RIVERS_HEIGHT, RIVER_LAST_FETCH_TIME,
                   RIVER_LAST_FETCH_DURATION, RIVER_SUCCESSFUL_REQUESTS_TOTAL,
                   RIVER_DATA_LAST_CHANGE, previous_river_data,
                   successful_river_requests, height_value, before>>

\* Lines 186-194: fetch the height, set its gauge.
R_Height ==
    /\ prog = "river_flow" /\ pc = "height"
    /\ Requested("H")
    /\ \E resp \in LoopResponses(idx) :
         LET r == get_level(resp, Elapsed("H")) IN
         IF Raised(r)
         THEN /\ pc' = "except"
              /\ status' = [status EXCEPT ![idx] = "raised"]
              /\ NoteNothing
              /\ UNCHANGED <<height_value, RIVERS_HEIGHT, total_requests, successful_durations>>
         ELSE
         /\ height_value' = r[2]
         /\ IF ~IsSuccess(r[2])
            THEN /\ NoteFailure
                 /\ pc' = "health"
                 /\ UNCHANGED <<RIVERS_HEIGHT, total_requests, successful_durations, status>>
            ELSE IF SetRaises(r[2])
            THEN /\ pc' = "except"
                 /\ status' = [status EXCEPT ![idx] = "raised"]
                 /\ NoteNothing
                 /\ UNCHANGED <<RIVERS_HEIGHT, total_requests, successful_durations>>
            ELSE /\ RIVERS_HEIGHT' = Set(RIVERS_HEIGHT, idx, r[2])
                 /\ total_requests' = total_requests + 1
                 /\ successful_durations' = Append(successful_durations, Val(r[3]))
                 /\ NoteReading("height")
                 /\ pc' = "health"
                 /\ UNCHANGED status
    /\ UNCHANGED <<call_vars, weather_vars, prog, now, idx, first, http_starts, cycle, current_time,
                   river_series, RIVERS_FLOW, RIVER_LAST_FETCH_TIME,
                   RIVER_LAST_FETCH_DURATION, RIVER_SUCCESSFUL_REQUESTS_TOTAL,
                   RIVER_DATA_LAST_CHANGE, previous_river_data,
                   successful_river_requests, flow_value, before>>

\* Lines 196-199: the guard of the health block, last_fetch_time.set.
R_Health ==
    /\ prog = "river_flow" /\ pc = "health"
    /\ IF HadSuccess(total_requests)
       THEN /\ RIVER_LAST_FETCH_TIME' = [RIVER_LAST_FETCH_TIME EXCEPT ![idx] = current_time]
            /\ pc' = "duration"
       ELSE /\ pc' = "return"
            /\ UNCHANGED RIVER_LAST_FETCH_TIME
    /\ UNCHANGED <<call_vars, weather_vars, prog, now, idx, first, http_starts, cycle, current_time,
                   river_series, RIVERS_FLOW, RIVERS_HEIGHT, RIVER_LAST_FETCH_DURATION,
                   RIVER_SUCCESSFUL_REQUESTS_TOTAL, RIVER_DATA_LAST_CHANGE,
                   previous_river_data, successful_river_requests, flow_value,
                   height_value, total_requests, successful_durations, hist_vars>>

\* Lines 200-201: last_fetch_duration.set(avg_duration).
R_Duration ==
    /\ prog = "river_flow" /\ pc = "duration"
    /\ RIVER_LAST_FETCH_DURATION' =
         [RIVER_LAST_FETCH_DURATION EXCEPT ![idx] = avg_duration(successful_durations)]
    /\ pc' = "count"
    /\ UNCHANGED <<call_vars, weather_vars, prog, now, idx, first, http_starts, cycle, current_time,
                   river_series, RIVERS_FLOW, RIVERS_HEIGHT, RIVER_LAST_FETCH_TIME,
                   RIVER_SUCCESSFUL_REQUESTS_TOTAL, RIVER_DATA_LAST_CHANGE,
                   previous_river_data, successful_river_requests, flow_value,
                   height_value, total_requests, successful_durations, hist_vars>>

\* Lines 203-205: the success counter and its gauge.
R_Count ==
    /\ prog = "river_flow" /\ pc = "count"
    /\ LET n == NewRequestCount(successful_river_requests[idx], total_requests) IN
         /\ successful_river_requests' = [successful_river_requests EXCEPT ![idx] = n]
         /\ RIVER_SUCCESSFUL_REQUESTS_TOTAL' =
              [RIVER_SUCCESSFUL_REQUESTS_TOTAL EXCEPT ![idx] = n]
    /\ pc' = "change"
    /\ UNCHANGED <<call_vars, weather_vars, prog, now, idx, first, http_starts, cycle, current_time,
                   river_series, RIVERS_FLOW, RIVERS_HEIGHT, RIVER_LAST_FETCH_TIME,
                   RIVER_LAST_FETCH_DURATION, RIVER_DATA_LAST_CHANGE,
                   previous_river_data, flow_value, height_value, total_requests,
                   successful_durations, hist_vars>>

\* Lines 207-220: change detection.
R_Change ==
    /\ prog = "river_flow" /\ pc = "change"
    /\ IF data_changed(previous_river_data[idx], flow_value, height_value)
       THEN /\ RIVER_DATA_LAST_CHANGE' = [RIVER_DATA_LAST_CHANGE EXCEPT ![idx] = current_time]
            /\ previous_river_data' =
                 [previous_river_data EXCEPT ![idx] = <<flow_value, height_value>>]
       ELSE UNCHANGED <<RIVER_DATA_LAST_CHANGE, previous_river_data>>
    /\ pc' = "return"
    /\ UNCHANGED <<call_vars, weather_vars, prog, now, idx, first, http_starts, cycle, current_time,
                   river_series, RIVERS_FLOW, RIVERS_HEIGHT, RIVER_LAST_FETCH_TIME,
                   RIVER_LAST_FETCH_DURATION, RIVER_SUCCESSFUL_REQUESTS_TOTAL,
                   successful_river_requests, flow_value, height_value,
                   total_requests, successful_durations, hist_vars>>

\* update_river_data returns; generate_hauteurs' for loop moves on (line 225).
R_Return ==
    /\ prog = "river_flow" /\ pc = "return"
    /\ status' = [status EXCEPT ![idx] = "returned"]
    /\ idx' = idx + 1
    /\ pc' = "station"
    /\ ClearRiverLocals
    /\ UNCHANGED <<call_vars, weather_vars, prog, now, first, http_starts, cycle, current_time,
                   river_series, RIVERS_FLOW, RIVERS_HEIGHT, RIVER_LAST_FETCH_TIME,
                   RIVER_LAST_FETCH_DURATION, RIVER_SUCCESSFUL_REQUESTS_TOTAL,
                   RIVER_DATA_LAST_CHANGE, previous_river_data,
                   successful_river_requests, failures, successes, seen, before, requests>>

\* ------------------------------------------------- river: the __main__ loop
\* Lines 279-284: the exception leaves update_river_data and generate_hauteurs
\* and is caught by the try around generate_hauteurs().
R_Except ==
    /\ prog = "river_flow" /\ pc = "except"
    /\ pc' = "first"
    /\ ClearRiverLocals
    /\ UNCHANGED <<call_vars, weather_vars, prog, now, idx, first, http_starts, cycle, current_time,
                   river_series, RIVERS_FLOW, RIVERS_HEIGHT, RIVER_LAST_FETCH_TIME,
                   RIVER_LAST_FETCH_DURATION, RIVER_SUCCESSFUL_REQUESTS_TOTAL,
                   RIVER_DATA_LAST_CHANGE, previous_river_data,
                   successful_river_requests, hist_vars>>

\* Line 225: the for loop is exhausted, generate_hauteurs returns.
R_Generated ==
    /\ prog = "river_flow" /\ pc = "station" /\ idx > NumStations
    /\ pc' = "first"
    /\ UNCHANGED <<call_vars, weather_vars, prog, now, idx, first, http_starts, cycle, current_time,
                   river_vars, hist_vars>>

\* ------------------------------------------------- wunderground: get_data
\* PROPS, in its insertion order (lines 67-87).
PROPS == <<"temp", "dewpt", "heatIndex", "windChill", "humidity", "precipRate",
           "precipTotal", "windSpeed", "windGust", "winddir", "uv",
           "solarRadiation", "pressure", "station_data_age">>
PropKeys == {PROPS[k] : k \in 1..Len(PROPS)}
\* The candidate timestamp fields, in the order get_data tries them (line 143).
TimestampFields == <<"obsTimeUtc", "epoch", "obsTimeLocal", "timestamp">>
\* Keys of an observation: the PROPS keys, the timestamp fields, and
\* "stationID" for the keys the exporter does not read.
AllKeys == PropKeys \cup {TimestampFields[k] : k \in 1..4} \cup {"stationID"}
Missing == <<"Missing">>
\* A timestamp in the format its field expects.
Time(t) == <<"time", t>>
NoKeys == [k \in AllKeys |-> Missing]
\* An observation: d is observations[0] merged with its "metric" object,
\* metric tells whether observations[0] has a "metric" object at all.
Obs(d, metric) == [kind |-> "ok", d |-> d, metric |-> metric]
WFailure(k) == [kind |-> k, d |-> NoKeys, metric |-> FALSE]

\* One pass of the try block of lines 145-166: "ok" with the parsed time,
\* "skip" for ValueError/TypeError (caught, continue), "raise" for the
\* AttributeError of None.replace(...), which that try does not catch.
ParseField(field, v) ==
    IF v[1] = "time" THEN <<"ok", v[2]>>
    ELSE IF field = "obsTimeUtc" /\ v[1] # "str" THEN <<"raise", 0>>
    ELSE <<"skip", 0>>

RECURSIVE ParseFrom(_, _)
ParseFrom(d, k) ==
    IF k > Len(TimestampFields) THEN <<"none", 0>>
    ELSE LET f == TimestampFields[k] IN
         IF d[f] = Missing THEN ParseFrom(d, k + 1)
         ELSE LET r == ParseField(f, d[f]) IN
              IF r[1] = "skip" THEN ParseFrom(d, k + 1) ELSE r
\* station_update_time of lines 142-166.
station_update_time(d) == ParseFrom(d, 1)

\* Lines 130-181: the body of get_data's try; clock is time.time() at line 170.
get_data_try(resp, elapsed, clock) ==
    IF resp.kind # "ok" THEN Raise(RequestError(resp.kind))
    ELSE LET t == station_update_time(resp.d) IN
         IF t[1] = "raise" THEN Raise("AttributeError")
         ELSE IF ~resp.metric THEN Raise("KeyError")          \* data.pop("metric")
         ELSE IF t[1] = "ok" /\ t[2] # 0                      \* if station_update_time:
         THEN Return([resp.d EXCEPT !["station_data_age"] = Num(clock - t[2])],
                     Num(elapsed))
         ELSE Return(resp.d, Num(elapsed))

\* Lines 126-193.
get_data(resp, elapsed, clock) == except_clauses(get_data_try(resp, elapsed, clock))

\* "not data": None, or a dict without keys.
NotData(d) == d = None \/ \A k \in AllKeys : d[k] = Missing

\* Temperatures (hundredths of a degree) and the other readings of the
\* responses the poll loop draws from.
Temps == {2000, 2003, 2005, 2006}
With(d, key, v) == [d EXCEPT ![key] = v]
\* Responses the poll loop draws from; as for the river, the stations after
\* the first get one response of each outcome.
WeatherLoopResponses(s) ==
    IF s = 1
    THEN {WFailure(k) : k \in FailureKinds}
         \cup {Obs(With(NoKeys, "temp", Num(t)), TRUE) : t \in Temps}
         \cup {Obs(With(NoKeys, "temp", Num(2000)), FALSE),
               Obs(NoKeys, TRUE),
               Obs(With(With(NoKeys, "temp", None), "dewpt", Num(2006)), TRUE),
               Obs(With(With(NoKeys, "temp", Bad), "humidity", Num(50)), TRUE),
               Obs(With(With(NoKeys, "temp", Num(2000)), "pressure", Bad), TRUE),
               Obs(With(With(NoKeys, "pressure", Num(1013)), "epoch", Time(1)), TRUE),
               Obs(With(With(NoKeys, "temp", Num(2000)), "obsTimeUtc", None), TRUE)}
    ELSE {WFailure("urlerror"),
          Obs(With(NoKeys, "temp", Num(2000)), TRUE),
          Obs(With(With(NoKeys, "temp", Bad), "humidity", Num(50)), TRUE)}

\* --------------------------------------------- wunderground: get_wunderground
PRESSURE_OFFSET == 0
\* Variant: a null value is written as 0 instead of being skipped.
RECURSIVE ProcessKeysNullAsZero(_, _, _, _)
ProcessKeysNullAsZero(d, k, gauges, temp) ==
    IF k > Len(PROPS) THEN [stop |-> "done", at |-> k, gauges |-> gauges, temp |-> temp]
    ELSE LET key == PROPS[k]
             value == IF IsNone(d[key]) THEN Num(0) ELSE d[key]
         IN IF value = Missing
            THEN ProcessKeysNullAsZero(d, k + 1, gauges, temp)
            ELSE IF key = "pressure" /\ ~IsNum(value)
            THEN [stop |-> "raise", at |-> k, gauges |-> gauges, temp |-> temp]
            ELSE LET t == IF key = "temp" THEN value
                          ELSE IF IsNone(temp) /\ key \in {"dewpt", "heatIndex", "windChill"}
                               THEN value
                               ELSE temp
                 IN IF SetRaises(value)
                    THEN [stop |-> "pdb", at |-> k, gauges |-> gauges, temp |-> t]
                    ELSE ProcessKeysNullAsZero(d, k + 1,
                            [gauges EXCEPT ![key] =
                                IF key = "pressure" THEN Val(value) - PRESSURE_OFFSET
                                ELSE Val(value)], t)
\* Variant: a fallback field replaces the temperature already found.
RECURSIVE ProcessKeysLastWins(_, _, _, _)
ProcessKeysLastWins(d, k, gauges, temp) ==
    IF k > Len(PROPS) THEN [stop |-> "done", at |-> k, gauges |-> gauges, temp |-> temp]
    ELSE LET key == PROPS[k]
             value == d[key]
         IN IF value = Missing \/ IsNone(value)
            THEN ProcessKeysLastWins(d, k + 1, gauges, temp)
            ELSE IF key = "pressure" /\ ~IsNum(value)
            THEN [stop |-> "raise", at |-> k, gauges |-> gauges, temp |-> temp]
            ELSE LET t == IF key \in {"temp", "dewpt", "heatIndex", "windChill"}
                          THEN value ELSE temp
                 IN IF SetRaises(value)
                    THEN [stop |-> "pdb", at |-> k, gauges |-> gauges, temp |-> t]
                    ELSE ProcessKeysLastWins(d, k + 1,
                            [gauges EXCEPT ![key] =
                                IF key = "pressure" THEN Val(value) - PRESSURE_OFFSET
                                ELSE Val(value)], t)
\* The loop of lines 230-252 from position k on.  It stops at the end of
\* PROPS ("done"), at value -= PRESSURE_OFFSET raising TypeError ("raise"),
\* or in the bare except of gauge.set (line 251: pdb.set_trace()).
RECURSIVE ProcessKeys(_, _, _, _)
ProcessKeys(d, k, gauges, temp) ==
    IF k > Len(PROPS) THEN [stop |-> "done", at |-> k, gauges |-> gauges, temp |-> temp]
    ELSE LET key == PROPS[k]
             value == d[key]
         IN IF value = Missing \/ IsNone(value)
            THEN ProcessKeys(d, k + 1, gauges, temp)
            ELSE IF key = "pressure" /\ ~IsNum(value)
            THEN [stop |-> "raise", at |-> k, gauges |-> gauges, temp |-> temp]
            ELSE LET t == IF key = "temp" THEN value
                          ELSE IF IsNone(temp) /\ key \in {"dewpt", "heatIndex", "windChill"}
                               THEN value
                               ELSE temp
                 IN IF SetRaises(value)
                    THEN [stop |-> "pdb", at |-> k, gauges |-> gauges, temp |-> t]
                    ELSE ProcessKeys(d, k + 1,
                            [gauges EXCEPT ![key] =
                                IF key = "pressure" THEN Val(value) - PRESSURE_OFFSET
                                ELSE Val(value)], t)

Abs(n) == IF n < 0 THEN -n ELSE n
\* temp_diff >= 0.05 (line 267), in hundredths.
TOLERANCE == 5
\* Variant: the comparison with the tolerance is strict.
temp_changed_strictly(previous_temp, temp) == Abs(Val(previous_temp) - Val(temp)) > TOLERANCE
temp_changed(previous_temp, temp) == Abs(Val(previous_temp) - Val(temp)) >= TOLERANCE

WHealthOf(s) == <<last_fetch_time[s], last_fetch_duration[s],
                  successful_requests_total[s], successful_request_counts[s],
                  temperature_last_change[s], previous_temperatures[s]>>

\* The value(s) last written to the reading gauges that the change detection
\* follows: flow and height of a river station, temperature of a weather
\* station.
LastRead(s) ==
    IF prog = "river_flow" THEN <<RIVERS_FLOW[s], RIVERS_HEIGHT[s]>>
    ELSE weather_gauges[s]["temp"]

\* The health values of station s: last fetch time, last fetch duration,
\* successful requests gauge and counter, last change, cached value(s), the
\* tracked fields read so far, and the value(s) last read.
Snapshot(s) ==
    Append(Append(IF prog = "river_flow" THEN HealthOf(s) ELSE WHealthOf(s), seen[s]),
           LastRead(s))

ClearWeatherLocals ==
    /\ data' = NoLocal
    /\ fetch_duration' = NoLocal
    /\ current_temp' = NoLocal
    /\ key_pos' = 0

\* Lines 338-346: the configuration check before each cycle.  The file may
\* have been edited since startup; reading it may fail.
EditConfig ==
    /\ prog = "wunderground" /\ pc = "check" /\ ~config_changed
    /\ config_changed' = TRUE
    /\ UNCHANGED <<main_vars, river_vars, hist_vars, config_readable, weather_series, weather_gauges,
                   last_fetch_time, last_fetch_duration, successful_requests_total,
                   temperature_last_change, previous_temperatures,
                   successful_request_counts, data, fetch_duration, current_temp,
                   key_pos>>

\* Variant: the comparison of the hashes is left out.
HashIgnored(readable, changed) == FALSE
\* Lines 340-342: open() succeeded and current_config_hash != initial_config_hash.
HashDiffers(readable, changed) == readable /\ changed
\* exit(0) raises SystemExit, which except Exception (line 345) lets through.
W_Check ==
    /\ prog = "wunderground" /\ pc = "check"
    /\ \E readable \in BOOLEAN :
         /\ config_readable' = readable
         /\ pc' = IF HashDiffers(readable, config_changed) THEN "exited" ELSE "station"
    /\ UNCHANGED <<call_vars, prog, now, idx, first, http_starts, cycle, current_time,
                   river_vars, hist_vars, config_changed, weather_series, weather_gauges,
                   last_fetch_time, last_fetch_duration, successful_requests_total,
                   temperature_last_change, previous_temperatures,
                   successful_request_counts, data, fetch_duration, current_temp,
                   key_pos>>

\* Lines 196-218: fetch; return when there is no data; otherwise read the
\* clock and create the labelled children.
W_FetchFrom(responses) ==
    /\ prog = "wunderground" /\ pc = "station" /\ idx <= NumStations
    /\ Requested("W")
    /\ \E resp \in responses :
         LET r == get_data(resp, Elapsed("W"), now) IN
         IF Raised(r)
         THEN /\ pc' = "except"
              /\ status' = [status EXCEPT ![idx] = "raised"]
              /\ NoteNothing
              /\ UNCHANGED <<data, fetch_duration, current_time, weather_series>>
         ELSE IF NotData(r[2])
         THEN /\ pc' = "return"
              /\ status' = [status EXCEPT ![idx] = "running"]
              /\ NoteFailure
              /\ UNCHANGED <<data, fetch_duration, current_time, weather_series>>
         ELSE /\ data' = r[2]
              /\ fetch_duration' = r[3]
              /\ current_time' = now
              /\ weather_series' = weather_series \cup {idx}
              /\ status' = [status EXCEPT ![idx] = "running"]
              /\ successes' = [successes EXCEPT ![idx] = @ + 1]
              /\ UNCHANGED <<failures, seen>>
              /\ pc' = "last_fetch_time"
    /\ UNCHANGED <<call_vars, prog, now, idx, first, http_starts, cycle, river_vars,
                   config_vars, weather_gauges, last_fetch_time,
                   last_fetch_duration, successful_requests_total,
                   temperature_last_change, previous_temperatures,
                   successful_request_counts, current_temp, key_pos, before>>
W_Fetch == W_FetchFrom(WeatherLoopResponses(idx))

\* Variant: last_fetch_time is not set before the loop over the gauges.
W_LastFetchTimeDeferred ==
    /\ prog = "wunderground" /\ pc = "last_fetch_time"
    /\ pc' = "last_fetch_duration"
    /\ UNCHANGED <<call_vars, prog, now, idx, first, http_starts, cycle, current_time,
                   river_vars, weather_vars, hist_vars>>
\* Line 221.
W_LastFetchTime ==
    /\ prog = "wunderground" /\ pc = "last_fetch_time"
    /\ last_fetch_time' = [last_fetch_time EXCEPT ![idx] = current_time]
    /\ pc' = "last_fetch_duration"
    /\ UNCHANGED <<call_vars, prog, now, idx, first, http_starts, cycle, current_time,
                   river_vars, hist_vars, config_vars, weather_series,
                   weather_gauges, last_fetch_duration, successful_requests_total,
                   temperature_last_change, previous_temperatures,
                   successful_request_counts, data, fetch_duration, current_temp,
                   key_pos>>

\* Line 222.
W_LastFetchDuration ==
    /\ prog = "wunderground" /\ pc = "last_fetch_duration"
    /\ last_fetch_duration' = [last_fetch_duration EXCEPT ![idx] = Val(fetch_duration)]
    /\ pc' = "count"
    /\ UNCHANGED <<call_vars, prog, now, idx, first, http_starts, cycle, current_time,
                   river_vars, hist_vars, config_vars, weather_series,
                   weather_gauges, last_fetch_time, successful_requests_total,
                   temperature_last_change, previous_temperatures,
                   successful_request_counts, data, fetch_duration, current_temp,
                   key_pos>>

\* Lines 224-226, and current_temp = None of line 229.
W_Count ==
    /\ prog = "wunderground" /\ pc = "count"
    /\ LET n == NewRequestCount(successful_request_counts[idx], 1) IN
         /\ successful_request_counts' = [successful_request_counts EXCEPT ![idx] = n]
         /\ successful_requests_total' = [successful_requests_total EXCEPT ![idx] = n]
    /\ current_temp' = None
    /\ key_pos' = 1
    /\ pc' = "fields"
    /\ UNCHANGED <<call_vars, prog, now, idx, first, http_starts, cycle, current_time,
                   river_vars, hist_vars, config_vars, weather_series,
                   weather_gauges, last_fetch_time, last_fetch_duration,
                   temperature_last_change, previous_temperatures, data,
                   fetch_duration>>

\* Lines 230-252: the loop over the labelled gauges, from key_pos on.
W_Fields ==
    /\ prog = "wunderground" /\ pc = "fields"
    /\ LET r == ProcessKeys(data, key_pos, weather_gauges[idx], current_temp) IN
         /\ weather_gauges' = [weather_gauges EXCEPT ![idx] = r.gauges]
         /\ current_temp' = r.temp
         /\ key_pos' = r.at
         /\ pc' = CASE r.stop = "done" -> "change"
                    [] r.stop = "pdb" -> "pdb"
                    [] r.stop = "raise" -> "except"
         /\ status' = IF r.stop = "raise" THEN [status EXCEPT ![idx] = "raised"]
                      ELSE status
         /\ seen' = IF IsNum(r.temp) THEN [seen EXCEPT ![idx] = @ \cup {"temperature"}]
                    ELSE seen
    /\ UNCHANGED <<call_vars, prog, now, idx, first, http_starts, cycle, current_time,
                   river_vars, failures, successes, before, requests, config_vars, weather_series,
                   last_fetch_time, last_fetch_duration, successful_requests_total,
                   temperature_last_change, previous_temperatures,
                   successful_request_counts, data, fetch_duration>>

\* Line 251: the debugger prompt.  Whoever is at the terminal may continue
\* (the loop goes on with the next key); at end of input pdb raises BdbQuit,
\* an Exception; with nobody there the thread stays here.
W_PdbContinue ==
    /\ prog = "wunderground" /\ pc = "pdb"
    /\ key_pos' = key_pos + 1
    /\ pc' = "fields"
    /\ UNCHANGED <<call_vars, prog, now, idx, first, http_starts, cycle, current_time,
                   river_vars, hist_vars, config_vars, weather_series,
                   weather_gauges, last_fetch_time, last_fetch_duration,
                   successful_requests_total, temperature_last_change,
                   previous_temperatures, successful_request_counts, data,
                   fetch_duration, current_temp>>

W_PdbQuit ==
    /\ prog = "wunderground" /\ pc = "pdb"
    /\ pc' = "except"
    /\ status' = [status EXCEPT ![idx] = "raised"]
    /\ UNCHANGED <<call_vars, prog, now, idx, first, http_starts, cycle, current_time,
                   river_vars, failures, successes, seen, before, requests, weather_vars>>

\* Lines 254-275: temperature change tracking.
\* Variant: the reading is cached in every cycle, so that the comparison is
\* with the last value read.
W_ChangeLastRead ==
    /\ prog = "wunderground" /\ pc = "change"
    /\ LET previous_temp == IF previous_temperatures[idx] = NoEntry THEN None
                            ELSE previous_temperatures[idx]
           set == /\ temperature_last_change' =
                       [temperature_last_change EXCEPT ![idx] = current_time]
                  /\ previous_temperatures' =
                       [previous_temperatures EXCEPT ![idx] = current_temp]
                  /\ pc' = "return"
                  /\ UNCHANGED status
           skip == /\ pc' = "return"
                   /\ previous_temperatures' =
                        [previous_temperatures EXCEPT ![idx] = current_temp]
                   /\ UNCHANGED <<temperature_last_change, status>>
       IN IF IsNone(current_temp)
          THEN /\ pc' = "return"
               /\ UNCHANGED <<temperature_last_change, previous_temperatures, status>>
          ELSE IF IsNone(previous_temp) THEN set
          ELSE IF ~IsNum(previous_temp) \/ ~IsNum(current_temp)   \* TypeError
          THEN /\ pc' = "except"
               /\ status' = [status EXCEPT ![idx] = "raised"]
               /\ UNCHANGED <<temperature_last_change, previous_temperatures>>
          ELSE IF temp_changed(previous_temp, current_temp) THEN set
          ELSE skip
    /\ UNCHANGED <<call_vars, prog, now, idx, first, http_starts, cycle, current_time,
                   river_vars, failures, successes, seen, before, requests, config_vars,
                   weather_series,
                   weather_gauges, last_fetch_time, last_fetch_duration,
                   successful_requests_total, successful_request_counts, data,
                   fetch_duration, current_temp, key_pos>>

W_Change ==
    /\ prog = "wunderground" /\ pc = "change"
    /\ LET previous_temp == IF previous_temperatures[idx] = NoEntry THEN None
                            ELSE previous_temperatures[idx]
           set == /\ temperature_last_change' =
                       [temperature_last_change EXCEPT ![idx] = current_time]
                  /\ previous_temperatures' =
                       [previous_temperatures EXCEPT ![idx] = current_temp]
                  /\ pc' = "return"
                  /\ UNCHANGED status
           skip == /\ pc' = "return"
                   /\ UNCHANGED <<temperature_last_change, previous_temperatures, status>>
       IN IF IsNone(current_temp) THEN skip
          ELSE IF IsNone(previous_temp) THEN set
          ELSE IF ~IsNum(previous_temp) \/ ~IsNum(current_temp)   \* TypeError
          THEN /\ pc' = "except"
               /\ status' = [status EXCEPT ![idx] = "raised"]
               /\ UNCHANGED <<temperature_last_change, previous_temperatures>>
          ELSE IF temp_changed(previous_temp, current_temp) THEN set
          ELSE skip
    /\ UNCHANGED <<call_vars, prog, now, idx, first, http_starts, cycle, current_time,
                   river_vars, failures, successes, seen, before, requests, config_vars,
                   weather_series,
                   weather_gauges, last_fetch_time, last_fetch_duration,
                   successful_requests_total, successful_request_counts, data,
                   fetch_duration, current_temp, key_pos>>

\* get_wunderground returns; the for loop of line 349 moves on.
W_Return ==
    /\ prog = "wunderground" /\ pc = "return"
    /\ status' = [status EXCEPT ![idx] = "returned"]
    /\ idx' = idx + 1
    /\ pc' = "station"
    /\ ClearWeatherLocals
    /\ UNCHANGED <<call_vars, prog, now, first, http_starts, cycle, current_time, river_vars,
                   failures, successes, seen, before, requests, config_vars, weather_series, weather_gauges,
                   last_fetch_time, last_fetch_duration, successful_requests_total,
                   temperature_last_change, previous_temperatures,
                   successful_request_counts>>

\* Lines 350-353: the exception is caught around get_wunderground(station).
W_Except ==
    /\ prog = "wunderground" /\ pc = "except"
    /\ idx' = idx + 1
    /\ pc' = "station"
    /\ ClearWeatherLocals
    /\ UNCHANGED <<call_vars, prog, now, first, http_starts, cycle, current_time, river_vars,
                   hist_vars, config_vars, weather_series,
                   weather_gauges, last_fetch_time, last_fetch_duration,
                   successful_requests_total, temperature_last_change,
                   previous_temperatures, successful_request_counts>>

\* Line 349: the for loop is exhausted.
W_Polled ==
    /\ prog = "wunderground" /\ pc = "station" /\ idx > NumStations
    /\ pc' = "first"
    /\ UNCHANGED <<call_vars, prog, now, idx, first, http_starts, cycle, current_time,
                   river_vars, weather_vars, hist_vars>>

\* Variant: the start is not gated by the flag.
StartAlways(flag) == TRUE
\* Lines 286-292 (river_flow.py), 355-360 (wunderground.py): if first:
\* start_http_server(...); first = False.
ShouldStartServer(flag) == flag
StartServer ==
    /\ pc = "first"
    /\ IF ShouldStartServer(first)
       THEN /\ http_starts' = http_starts + 1
            /\ first' = FALSE
       ELSE UNCHANGED <<http_starts, first>>
    /\ pc' = "sleep"
    /\ UNCHANGED <<call_vars, prog, now, idx, cycle, current_time, river_vars, weather_vars,
                   hist_vars>>

\* Lines 297 (river_flow.py), 365 (wunderground.py): time.sleep(...), then
\* the next iteration of while True.
SleepUpTo(bound) ==
    /\ pc = "sleep"
    /\ cycle + 1 < bound
    /\ now' = now + 1
    /\ cycle' = cycle + 1
    /\ idx' = 1
    /\ pc' = IF prog = "river_flow" THEN "station" ELSE "check"
    /\ status' = [s \in Stations |-> "pending"]
    /\ failures' = [s \in Stations |-> 0]
    /\ successes' = [s \in Stations |-> 0]
    /\ before' = [s \in Stations |-> Snapshot(s)]
    /\ requests' = [s \in Stations |-> <<>>]
    /\ UNCHANGED <<call_vars, prog, first, http_starts, current_time, river_vars, weather_vars,
                   seen>>
Sleep == SleepUpTo(MaxCycles)

\* The state after the module level and the start of __main__ have run.
Startup ==
    /\ now = 1
    /\ idx = 1
    /\ first = TRUE
    /\ http_starts = 0
    /\ cycle = 0
    /\ current_time = 0
    /\ river_series = [m \in RiverMetrics |-> {}]
    /\ RIVERS_FLOW = [s \in Stations |-> 0]
    /\ RIVERS_HEIGHT = [s \in Stations |-> 0]
    /\ RIVER_LAST_FETCH_TIME = [s \in Stations |-> 0]
    /\ RIVER_LAST_FETCH_DURATION = [s \in Stations |-> 0]
    /\ RIVER_SUCCESSFUL_REQUESTS_TOTAL = [s \in Stations |-> 0]
    /\ RIVER_DATA_LAST_CHANGE = [s \in Stations |-> 0]
    /\ previous_river_data = [s \in Stations |-> NoEntry]
    /\ successful_river_requests = [s \in Stations |-> 0]
    /\ flow_value = NoLocal
    /\ height_value = NoLocal
    /\ total_requests = 0
    /\ successful_durations = <<>>
    /\ config_changed = FALSE
    /\ config_readable = TRUE
    /\ weather_series = {}
    /\ weather_gauges = [s \in Stations |-> [k \in PropKeys |-> 0]]
    /\ last_fetch_time = [s \in Stations |-> 0]
    /\ last_fetch_duration = [s \in Stations |-> 0]
    /\ successful_requests_total = [s \in Stations |-> 0]
    /\ temperature_last_change = [s \in Stations |-> 0]
    /\ previous_temperatures = [s \in Stations |-> NoEntry]
    /\ successful_request_counts = [s \in Stations |-> 0]
    /\ data = NoLocal
    /\ fetch_duration = NoLocal
    /\ current_temp = NoLocal
    /\ key_pos = 0
    /\ status = [s \in Stations |-> "pending"]
    /\ failures = [s \in Stations |-> 0]
    /\ successes = [s \in Stations |-> 0]
    /\ seen = [s \in Stations |-> {}]
    /\ before = [s \in Stations |->
                   <<0, 0, 0, 0, 0, NoEntry, {},
                     IF prog = "river_flow" THEN <<0, 0>> ELSE 0>>]
    /\ requests = [s \in Stations |-> <<>>]

Init ==
    /\ prog \in {"river_flow", "wunderground"}
    /\ pc = IF prog = "river_flow" THEN "station" ELSE "check"
    /\ response = NoLocal
    /\ result = NoLocal
    /\ Startup

RiverNext ==
    \/ R_Enter \/ R_Flow \/ R_Height \/ R_Health \/ R_Duration \/ R_Count
    \/ R_Change \/ R_Return \/ R_Except \/ R_Generated

WeatherNext ==
    \/ EditConfig \/ W_Check \/ W_Fetch \/ W_LastFetchTime \/ W_LastFetchDuration
    \/ W_Count \/ W_Fields \/ W_PdbContinue \/ W_PdbQuit \/ W_Change \/ W_Return
    \/ W_Except \/ W_Polled

Next == RiverNext \/ WeatherNext \/ StartServer \/ Sleep

Spec == Init /\ [][Next]_vars

\* ------------------------------------------------ one call of a fetcher
\* Every response of get_level: the failure kinds and every series of at
\* most MaxLen points, a point being [t, value] or lacking its value.
LevelResponses ==
    {Failure(k) : k \in FailureKinds}
    \cup {Ok(ser) : ser \in UNION {[1..k -> Points \cup {ShortPoint}] : k \in 0..MaxLen}}
\* Every response of get_data: the failure kinds and observations with or
\* without "metric", a temperature, and each timestamp field missing, well
\* formed (0 and 1), a string that does not parse, or null.
TimestampValues == {Missing, Time(0), Time(1), Bad, None}
DataResponses ==
    {WFailure(k) : k \in FailureKinds}
    \cup {Obs([k \in AllKeys |->
                 IF k = "temp" THEN temp
                 ELSE IF k = "obsTimeUtc" THEN ts[1]
                 ELSE IF k = "epoch" THEN ts[2]
                 ELSE IF k = "obsTimeLocal" THEN ts[3]
                 ELSE IF k = "timestamp" THEN ts[4]
                 ELSE Missing], metric) :
            temp \in {Missing, Num(2000)},
            ts \in [1..4 -> TimestampValues],
            metric \in BOOLEAN}

InitFetch ==
    /\ prog \in {"get_level", "get_data"}
    /\ pc = "call"
    /\ response \in IF prog = "get_level" THEN LevelResponses ELSE DataResponses
    /\ result = NoLocal
    /\ Startup

CallGetLevel ==
    /\ prog = "get_level" /\ pc = "call"
    /\ \E serie \in {"Q", "H"} : result' = get_level(response, Elapsed(serie))
    /\ pc' = "called"
    /\ UNCHANGED <<prog, now, idx, first, http_starts, cycle, current_time, response,
                   river_vars, weather_vars, hist_vars>>

CallGetData ==
    /\ prog = "get_data" /\ pc = "call"
    /\ result' = get_data(response, Elapsed("W"), now)
    /\ pc' = "called"
    /\ UNCHANGED <<prog, now, idx, first, http_starts, cycle, current_time, response,
                   river_vars, weather_vars, hist_vars>>

NextFetch == CallGetLevel \/ CallGetData

SpecFetch == InitFetch /\ [][NextFetch]_vars

\* ======================================================== properties
SubFetches == IF prog = "river_flow" THEN 2 ELSE 1
CycleOver == pc \in {"first", "sleep"}
StationOver == pc \in {"return", "except"}
LastFetchTime(s) == Snapshot(s)[1]
LastFetchDuration(s) == Snapshot(s)[2]
RequestsTotal(s) == Snapshot(s)[3]
RequestCounter(s) == Snapshot(s)[4]
LastChange(s) == Snapshot(s)[5]
Cached(s) == Snapshot(s)[6]

\* C1: per-entity isolation.  When the loop over the stations of a cycle is
\* over, every station that comes after a station whose processing raised
\* has been processed in that cycle too.
C1_Isolation ==
    CycleOver =>
        \A a, b \in Stations :
            (a < b /\ status[a] = "raised") => status[b] \in {"returned", "raised"}

\* C2: a station all of whose sub-fetches of the cycle gave no value has the
\* last_fetch_time, last_fetch_duration and successful_requests_total gauges
\* and the success counter it had when the cycle began.
C2_AllFailedUnchanged ==
    \A s \in Stations :
        failures[s] = SubFetches =>
            /\ LastFetchTime(s) = before[s][1]
            /\ LastFetchDuration(s) = before[s][2]
            /\ RequestsTotal(s) = before[s][3]
            /\ RequestCounter(s) = before[s][4]
\* A second cycle is over in which both fetches of river station 1 failed,
\* after a first cycle in which it had a success.
C2_Witness ==
    /\ prog = "river_flow" /\ pc = "sleep" /\ cycle = 1
    /\ failures[1] = 2
    /\ before[1][3] > 0 /\ before[1][1] > 0

\* C3: when a cycle is over, successful_requests_total of every station is
\* its value when the cycle began plus the number of the station's
\* sub-fetches that gave a reading in the cycle (so it never decreases).
C3_CountsSuccesses ==
    CycleOver =>
        \A s \in Stations : RequestsTotal(s) = before[s][3] + successes[s]

\* C4 as stated: with a cached previous temperature, the change tracking
\* sets temperature_last_change to the cycle time and replaces the cache
\* exactly when abs(new - old) > 0.05, and leaves both alone otherwise.
ChangeTracked ==
    /\ prog = "wunderground" /\ pc = "return"
    /\ IsNum(current_temp) /\ IsNum(before[idx][6])
TempDiff == Abs(Val(current_temp) - Val(before[idx][6]))
Updated ==
    /\ temperature_last_change[idx] = current_time
    /\ previous_temperatures[idx] = current_temp
Untouched ==
    /\ temperature_last_change[idx] = before[idx][5]
    /\ previous_temperatures[idx] = before[idx][6]
C4_StrictlyGreater ==
    ChangeTracked => IF TempDiff > TOLERANCE THEN Updated ELSE Untouched
\* C4 amended: exactly when abs(new - old) >= 0.05; a difference of exactly
\* 0.05 updates both.
C4_AtLeastTolerance ==
    ChangeTracked => IF TempDiff >= TOLERANCE THEN Updated ELSE Untouched
\* 20.00 is cached, 20.05 is read: both are updated.
C4_Witness ==
    /\ ChangeTracked
    /\ before[idx][6] = Num(2000) /\ current_temp = Num(2005)
    /\ Updated /\ temperature_last_change[idx] # before[idx][5]

\* C5: when the processing of a station is over, every tracked field read as
\* a number for the first time ever in this cycle has set the station's
\* last-change gauge to the cycle's timestamp and is in the cache.
FirstSeen(field) == field \in seen[idx] /\ field \notin before[idx][7]
C5_FirstObservation ==
    StationOver =>
        /\ (prog = "river_flow" /\ FirstSeen("flow")) =>
              /\ RIVER_DATA_LAST_CHANGE[idx] = current_time
              /\ PreviousGet(previous_river_data[idx], 1) = flow_value
        /\ (prog = "river_flow" /\ FirstSeen("height")) =>
              /\ RIVER_DATA_LAST_CHANGE[idx] = current_time
              /\ PreviousGet(previous_river_data[idx], 2) = height_value
        /\ (prog = "wunderground" /\ FirstSeen("temperature")) =>
              /\ temperature_last_change[idx] = current_time
              /\ previous_temperatures[idx] = current_temp

\* C6: the metrics endpoint is started at most once, it is not started
\* before the loop over the stations of the first cycle is over, and it is
\* started by the time the first cycle sleeps, whatever the stations did.
C6_StartedOnce ==
    /\ http_starts <= 1
    /\ http_starts = 1 <=> (cycle >= 1 \/ pc = "sleep")
    /\ first <=> http_starts = 0
\* The second cycle is over, a station raised in it, the endpoint was not
\* started again.
C6_Witness ==
    /\ pc = "sleep" /\ cycle = 1 /\ http_starts = 1
    /\ \E s \in Stations : status[s] = "raised"

\* C7: in a cycle in which the fetch of an earlier station failed, every
\* reading a later station fetched is in its gauge: a river reading from
\* the fetch on, the readings of a well-formed weather response once the
\* loop over the gauges is over.
EarlierFailed == \E a \in Stations : a < idx /\ failures[a] > 0
WellFormed(d) == \A k \in PropKeys : d[k] = Missing \/ IsNone(d[k]) \/ IsNum(d[k])
C7_LaterReadingWritten ==
    EarlierFailed =>
        /\ (prog = "river_flow" /\ IsNum(flow_value)
              /\ pc \in {"height", "health", "duration", "count", "change",
                         "return", "except"})
             => RIVERS_FLOW[idx] = Val(flow_value)
        /\ (prog = "river_flow" /\ IsNum(height_value)
              /\ pc \in {"health", "duration", "count", "change", "return", "except"})
             => RIVERS_HEIGHT[idx] = Val(height_value)
        /\ (prog = "wunderground" /\ data # NoLocal /\ pc \in {"change", "return", "except"})
             => (WellFormed(data) =>
                   \A k \in PropKeys :
                       IsNum(data[k]) => weather_gauges[idx][k] = Val(data[k]))
\* Station 1's flow fetch failed, station 2's flow reading 12.3 is written.
C7_Witness ==
    /\ prog = "river_flow" /\ idx = 2 /\ pc = "return"
    /\ failures[1] > 0
    /\ flow_value = Num(123) /\ RIVERS_FLOW[2] = 123

\* C8: get_level on a series of [t, value] points: an empty series gives no
\* value; a non-null last value is returned; a null last value gives the
\* second-to-last value when there is one; otherwise the caller sees no
\* value and does not count a success.
WellFormedSeries(ser) == \A k \in 1..Len(ser) : Len(ser[k]) = 2
C8_Extraction ==
    (prog = "get_level" /\ pc = "called" /\ response.kind = "ok"
       /\ WellFormedSeries(response.series)) =>
        LET ser == response.series
            n == Len(ser)
        IN /\ ~Raised(result)
           /\ n = 0 => IsNone(result[2])
           /\ (n > 0 /\ ~IsNone(ser[n][2])) => result[2] = ser[n][2]
           /\ (n > 1 /\ IsNone(ser[n][2])) => result[2] = ser[n - 1][2]
           /\ (n = 1 /\ IsNone(ser[n][2])) => IsNone(result[2])
           /\ (n > 0 /\ IsNone(ser[n][2]) /\ (n = 1 \/ IsNone(ser[n - 1][2])))
                => ~IsSuccess(result[2])
\* [.., 12.3], [.., null] returns 12.3.
C8_Witness ==
    /\ prog = "get_level" /\ pc = "called"
    /\ response = Ok(<<Point(Num(123)), Point(None)>>)
    /\ result[2] = Num(123)

\* C9: a non-numeric value never makes an exception leave update_river_data
\* or get_wunderground, and never stops the thread.
C9_Total == pc \notin {"except", "pdb"}

\* C10: get_level and get_data never raise; a request or a parse that fails
\* gives (None, None); a duration is returned only when the request and the
\* extraction completed.
FetchFails(resp) ==
    IF prog = "get_level"
    THEN LET ser == resp.series
             n == Len(ser)
         IN \/ resp.kind # "ok"
            \/ n > 0 /\ Len(ser[n]) < 2
            \/ n > 1 /\ Len(ser[n]) = 2 /\ IsNone(ser[n][2]) /\ Len(ser[n - 1]) < 2
    ELSE \/ resp.kind # "ok"
         \/ ~resp.metric
         \/ IsNone(resp.d["obsTimeUtc"])
C10_NeverRaises ==
    pc = "called" =>
        /\ ~Raised(result)
        /\ FetchFails(response) => result = Return(None, None)
        /\ ~IsNone(result[3]) =>
              /\ ~FetchFails(response)
              /\ prog = "get_level" => Len(response.series) > 0
\* An observation without "metric": get_data returns (None, None).
C10_Witness ==
    /\ prog = "get_data" /\ pc = "called"
    /\ response.kind = "ok" /\ ~response.metric
    /\ result = Return(None, None)

\* C11: the process exits only at the configuration check, when the file
\* was read and its hash differs from the startup hash, before any station
\* of that cycle is polled; it takes no step afterwards; and a cycle runs
\* only when the check found the hash equal or could not read the file.
C11_ConfigCheck ==
    /\ [](pc = "exited" =>
            /\ config_readable /\ config_changed
            /\ idx = 1 /\ \A s \in Stations : status[s] = "pending")
    /\ []((prog = "wunderground" /\ pc \notin {"check", "exited"}) =>
            ~(config_readable /\ config_changed))
    /\ [][pc # "exited"]_vars
    /\ [][(pc = "check" /\ pc' = "station") =>
            (~config_changed \/ ~config_readable')]_vars
\* The file changed after a first cycle: the process exits before the second.
C11_Witness == pc = "exited" /\ cycle = 1 /\ http_starts = 1

\* C12: a station that has not had a successful sub-fetch yet has none of
\* its health series in the registry.
HealthMetrics == {"river_last_fetch_time", "river_last_fetch_duration",
                  "river_successful_requests_total", "river_data_last_change"}
HasHealthSeries(s) ==
    IF prog = "river_flow" THEN \E m \in HealthMetrics : s \in river_series[m]
    ELSE s \in weather_series
NeverSucceeded(s) == RequestCounter(s) = 0 /\ successes[s] = 0 /\ seen[s] = {}
C12_LazySeries ==
    \A s \in Stations : NeverSucceeded(s) => ~HasHealthSeries(s)

\* ------------------------------------------------------------- progress
\* The steps the poll thread takes by itself.  An edit of stations.yaml and
\* what happens at the debugger prompt are up to the environment.
ThreadSteps ==
    \/ RiverNext
    \/ W_Check \/ W_Fetch \/ W_LastFetchTime \/ W_LastFetchDuration \/ W_Count
    \/ W_Fields \/ W_Change \/ W_Return \/ W_Except \/ W_Polled
    \/ StartServer \/ Sleep
\* The thread is never preempted forever: a step it can take, it takes.
SpecLive == Init /\ [][Next]_vars /\ WF_vars(ThreadSteps)

\* C13: a cycle that has begun to poll its stations reaches the sleep
\* between cycles.
C13_CycleCompletes == (pc \notin {"check", "exited", "sleep"}) ~> (pc = "sleep")

\* C14: when update_river_data returns, the cached value of a field whose
\* fetch gave no value in this cycle is the one cached when the cycle began.
C14_FailedFieldKept ==
    (prog = "river_flow" /\ pc = "return") =>
        /\ IsNone(flow_value) =>
             PreviousGet(previous_river_data[idx], 1) = PreviousGet(before[idx][6], 1)
        /\ IsNone(height_value) =>
             PreviousGet(previous_river_data[idx], 2) = PreviousGet(before[idx][6], 2)

\* C15 as stated: once a reading gauge of the station being processed has
\* been set in this cycle, the health update of the cycle (last fetch time
\* and duration, request count, change detection) is complete.
ReadingsSet ==
    \/ /\ prog = "river_flow" /\ successes[idx] > 0
       /\ pc \in {"height", "health", "duration", "count", "change", "return"}
    \/ /\ prog = "wunderground" /\ data # NoLocal
       /\ pc \in {"change", "return"}
       /\ \E k \in PropKeys : IsNum(data[k])
HealthRecorded == pc = "return"
C15_HealthFirst == ReadingsSet => HealthRecorded
\* C15 amended.  River: the health values are untouched until both fetches
\* are done, and the fetched readings are in their gauges when the health
\* update begins.  Weather: last fetch time, duration and request count are
\* set when the loop over the gauges begins, the reading gauges are written
\* only in that loop, and the change detection runs after it.
HealthUntouched == HealthOf(idx) = SubSeq(before[idx], 1, 6)
RiverReadingsSet ==
    /\ IsNum(flow_value) => RIVERS_FLOW[idx] = Val(flow_value)
    /\ IsNum(height_value) => RIVERS_HEIGHT[idx] = Val(height_value)
WeatherReadingsSet ==
    \A k \in PropKeys :
        IsNum(data[k]) =>
            weather_gauges[idx][k] =
                IF k = "pressure" THEN Val(data[k]) - PRESSURE_OFFSET ELSE Val(data[k])
ChangeUntouched ==
    /\ temperature_last_change[idx] = before[idx][5]
    /\ previous_temperatures[idx] = before[idx][6]
C15_Order ==
    /\ []((prog = "river_flow" /\ pc \in {"flow", "height", "health"}) => HealthUntouched)
    /\ []((prog = "river_flow" /\ pc \in {"health", "duration", "count", "change"})
            => RiverReadingsSet)
    /\ []((prog = "wunderground" /\ pc = "fields" /\ key_pos = 1) =>
            /\ last_fetch_time[idx] = current_time
            /\ last_fetch_duration[idx] = Val(fetch_duration)
            /\ successful_requests_total[idx] = before[idx][3] + 1
            /\ ChangeUntouched)
    /\ [][weather_gauges' # weather_gauges =>
            (pc = "fields" /\ last_fetch_time[idx] = current_time)]_vars
    /\ []((prog = "wunderground" /\ pc = "change") =>
            (WeatherReadingsSet /\ ChangeUntouched))
    /\ [][(temperature_last_change' # temperature_last_change
             \/ previous_temperatures' # previous_temperatures) => pc = "change"]_vars
\* Both readings of a river station are in their gauges, its health update
\* has not begun.
C15_Witness ==
    /\ prog = "river_flow" /\ pc = "health" /\ cycle = 1
    /\ successes[idx] = 2 /\ RIVERS_FLOW[idx] = 123
    /\ RIVER_LAST_FETCH_TIME[idx] # current_time

\* C16: in update_river_data a flow fetch that gives no value is followed by
\* the height fetch, whose reading is then written and counted; a height
\* fetch that gives no value leaves the flow reading written and counted.
\* Only a fetched value can end the processing of the station early.
HealthPending == pc \in {"health", "duration", "count", "change", "return"}
C16_FieldIsolation ==
    /\ [][(prog = "river_flow" /\ pc = "flow" /\ pc' # "height") =>
            (flow_value' # NoLocal /\ ~IsNone(flow_value'))]_vars
    /\ [][(prog = "river_flow" /\ pc = "height" /\ pc' # "health") =>
            (height_value' # NoLocal /\ ~IsNone(height_value'))]_vars
    /\ []((prog = "river_flow" /\ HealthPending
             /\ IsNone(flow_value) /\ IsNum(height_value)) =>
            /\ RIVERS_HEIGHT[idx] = Val(height_value)
            /\ total_requests = 1
            /\ pc = "return" => RequestsTotal(idx) = before[idx][3] + 1)
    /\ []((prog = "river_flow" /\ HealthPending
             /\ IsNum(flow_value) /\ IsNone(height_value)) =>
            /\ RIVERS_FLOW[idx] = Val(flow_value)
            /\ total_requests = 1
            /\ pc = "return" => RequestsTotal(idx) = before[idx][3] + 1)
\* The flow fetch failed, the height 12.3 is written and counted.
C16_Witness ==
    /\ prog = "river_flow" /\ pc = "return"
    /\ IsNone(flow_value) /\ height_value = Num(123)
    /\ RIVERS_HEIGHT[idx] = 123 /\ RequestsTotal(idx) = before[idx][3] + 1

\* C17: when the processing of a station that had a successful sub-fetch in
\* this cycle is over, last_fetch_time is the cycle's timestamp and
\* last_fetch_duration is the mean of the durations of the sub-fetches that
\* succeeded.
MeanOfSucceeded ==
    IF prog = "wunderground" THEN Elapsed("W")
    ELSE IF IsNum(flow_value) /\ IsNum(height_value)
         THEN (Elapsed("Q") + Elapsed("H")) \div 2
    ELSE IF IsNum(flow_value) THEN Elapsed("Q")
    ELSE Elapsed("H")
C17_FetchHealth ==
    (StationOver /\ successes[idx] > 0) =>
        /\ LastFetchTime(idx) = current_time
        /\ LastFetchDuration(idx) = MeanOfSucceeded

\* ------------------------------------ the loop over the gauges, by itself
\* get_wunderground from the loop of line 230 on, for station 1, in the
\* first cycle (c = 0: nothing cached) or in the second, after a first
\* cycle that read temp = 20.00 (c = 1).  The observation holds any
\* combination of the four temperature fields missing, null or a number.
FamilyValues(key) ==
    {Missing, None} \cup
    CASE key = "temp" -> {Num(2000)}
      [] key = "dewpt" -> {Num(0), Num(1001)}
      [] key = "heatIndex" -> {Num(1002)}
      [] key = "windChill" -> {Num(1003)}
FamilyData ==
    {With(With(With(With(NoKeys, "temp", t), "dewpt", d), "heatIndex", h), "windChill", w) :
        t \in FamilyValues("temp"), d \in FamilyValues("dewpt"),
        h \in FamilyValues("heatIndex"), w \in FamilyValues("windChill")}
InitFields ==
    \E c \in {0, 1} : \E d \in FamilyData :
        /\ prog = "wunderground" /\ pc = "fields" /\ idx = 1
        /\ now = c + 1 /\ cycle = c /\ current_time = c + 1
        /\ first = (c = 0) /\ http_starts = c
        /\ response = NoLocal /\ result = NoLocal
        /\ river_series = [m \in RiverMetrics |-> {}]
        /\ RIVERS_FLOW = [s \in Stations |-> 0]
        /\ RIVERS_HEIGHT = [s \in Stations |-> 0]
        /\ RIVER_LAST_FETCH_TIME = [s \in Stations |-> 0]
        /\ RIVER_LAST_FETCH_DURATION = [s \in Stations |-> 0]
        /\ RIVER_SUCCESSFUL_REQUESTS_TOTAL = [s \in Stations |-> 0]
        /\ RIVER_DATA_LAST_CHANGE = [s \in Stations |-> 0]
        /\ previous_river_data = [s \in Stations |-> NoEntry]
        /\ successful_river_requests = [s \in Stations |-> 0]
        /\ flow_value = NoLocal /\ height_value = NoLocal
        /\ total_requests = 0 /\ successful_durations = <<>>
        /\ config_changed = FALSE /\ config_readable = TRUE
        /\ weather_series = {1}
        /\ weather_gauges =
             [s \in Stations |-> [k \in PropKeys |->
                 IF c = 1 /\ s = 1 /\ k = "temp" THEN 2000 ELSE 0]]
        /\ last_fetch_time = [s \in Stations |-> IF s = 1 THEN c + 1 ELSE 0]
        /\ last_fetch_duration = [s \in Stations |-> IF s = 1 THEN Elapsed("W") ELSE 0]
        /\ successful_requests_total = [s \in Stations |-> IF s = 1 THEN c + 1 ELSE 0]
        /\ successful_request_counts = [s \in Stations |-> IF s = 1 THEN c + 1 ELSE 0]
        /\ temperature_last_change = [s \in Stations |-> IF s = 1 THEN c ELSE 0]
        /\ previous_temperatures =
             [s \in Stations |-> IF c = 1 /\ s = 1 THEN Num(2000) ELSE NoEntry]
        /\ data = d /\ fetch_duration = Num(Elapsed("W"))
        /\ current_temp = None /\ key_pos = 1
        /\ status = [s \in Stations |-> IF s = 1 THEN "running" ELSE "pending"]
        /\ failures = [s \in Stations |-> 0]
        /\ successes = [s \in Stations |-> IF s = 1 THEN 1 ELSE 0]
        /\ seen = [s \in Stations |-> IF c = 1 /\ s = 1 THEN {"temperature"} ELSE {}]
        /\ before = [s \in Stations |->
                       IF c = 1 /\ s = 1
                       THEN <<1, Elapsed("W"), 1, 1, 1, Num(2000), {"temperature"}, 2000>>
                       ELSE <<0, 0, 0, 0, 0, NoEntry, {}, 0>>]
        /\ requests = [s \in Stations |-> IF s = 1 THEN <<"W">> ELSE <<>>]
NextFields == W_Fields \/ W_Change
SpecFields == InitFields /\ [][NextFields]_vars

\* C18: the temperature used by the change detection is the first of temp,
\* dewpt, heatIndex, windChill that is present and not null; when there is
\* none, temperature_last_change and the cached temperature are unchanged;
\* the first temperature ever is what the cache then holds.
FirstAvailable(d) ==
    LET Has(key) == d[key] # Missing /\ ~IsNone(d[key])
    IN IF Has("temp") THEN d["temp"]
       ELSE IF Has("dewpt") THEN d["dewpt"]
       ELSE IF Has("heatIndex") THEN d["heatIndex"]
       ELSE IF Has("windChill") THEN d["windChill"]
       ELSE None
C18_TempFallback ==
    (prog = "wunderground" /\ data # NoLocal /\ pc \in {"change", "return"}) =>
        /\ current_temp = FirstAvailable(data)
        /\ (pc = "return" /\ IsNone(FirstAvailable(data))) => ChangeUntouched
        /\ (pc = "return" /\ ~IsNone(FirstAvailable(data)) /\ before[idx][6] = NoEntry) =>
              previous_temperatures[idx] = FirstAvailable(data)
\* temp is null, dewpt is missing: heatIndex is used, not windChill.
C18_Witness ==
    /\ prog = "wunderground" /\ pc = "return" /\ data # NoLocal
    /\ IsNone(data["temp"]) /\ data["dewpt"] = Missing
    /\ data["heatIndex"] = Num(1002) /\ data["windChill"] = Num(1003)
    /\ current_temp = Num(1002) /\ previous_temperatures[idx] = Num(1002)

\* C19: for an observation with its "metric" object, get_data returns the
\* data (the fetch is a success), with station_data_age computed from the
\* first of obsTimeUtc, epoch, obsTimeLocal, timestamp that is present and
\* parses, and without station_data_age when none does.
Parses(v) == v[1] = "time"
FirstParsing(d) ==
    IF Parses(d["obsTimeUtc"]) THEN d["obsTimeUtc"]
    ELSE IF Parses(d["epoch"]) THEN d["epoch"]
    ELSE IF Parses(d["obsTimeLocal"]) THEN d["obsTimeLocal"]
    ELSE IF Parses(d["timestamp"]) THEN d["timestamp"]
    ELSE None
C19_TimestampExtraction ==
    (prog = "get_data" /\ pc = "called" /\ response.kind = "ok" /\ response.metric) =>
        /\ ~Raised(result) /\ IsNum(result[3])
        /\ result[2]["station_data_age"] =
              IF IsNone(FirstParsing(response.d)) THEN Missing
              ELSE Num(now - FirstParsing(response.d)[2])

\* C20: when the loop over the stations of a cycle is over, exactly one
\* request has been made for each sub-field of each station: flow then
\* height for a river station, one observation for a weather station.
SubFields == IF prog = "river_flow" THEN <<"Q", "H">> ELSE <<"W">>
C20_FetchedOnce ==
    CycleOver => \A s \in Stations : requests[s] = SubFields

\* C21: no step makes the last_fetch_time gauge of a station smaller, a step
\* that changes it belongs to a cycle in which the station had a successful
\* sub-fetch, and over a cycle the gauge is at least what it was when the
\* cycle began and differs only if the station had a successful sub-fetch.
FetchTimes == IF prog = "river_flow" THEN RIVER_LAST_FETCH_TIME ELSE last_fetch_time
C21_FetchTimeMonotone ==
    /\ [][\A s \in Stations :
            /\ FetchTimes'[s] >= FetchTimes[s]
            /\ FetchTimes'[s] # FetchTimes[s] => successes[s] > 0]_vars
    /\ [](\A s \in Stations :
            /\ FetchTimes[s] >= before[s][1]
            /\ FetchTimes[s] # before[s][1] => successes[s] > 0)
\* Station 1 was fetched in the first cycle and again in the second.
C21_Witness ==
    /\ cycle = 1 /\ before[1][1] = 1 /\ FetchTimes[1] = 2 /\ successes[1] > 0

\* C22: a reading gauge changes only in the step that obtained a numeric
\* reading for it, and then to that reading: a river gauge in the fetch of
\* its series for its station, a weather gauge in the loop over the gauges
\* of its station with the key present and not null in the response.
C22_ReadingKept ==
    /\ [][\A s \in Stations :
            RIVERS_FLOW'[s] # RIVERS_FLOW[s] =>
                /\ pc = "flow" /\ s = idx /\ IsNum(flow_value')
                /\ RIVERS_FLOW'[s] = Val(flow_value')]_vars
    /\ [][\A s \in Stations :
            RIVERS_HEIGHT'[s] # RIVERS_HEIGHT[s] =>
                /\ pc = "height" /\ s = idx /\ IsNum(height_value')
                /\ RIVERS_HEIGHT'[s] = Val(height_value')]_vars
    /\ [][\A s \in Stations : \A k \in PropKeys :
            weather_gauges'[s][k] # weather_gauges[s][k] =>
                /\ pc = "fields" /\ s = idx /\ IsNum(data[k])
                /\ weather_gauges'[s][k] =
                      IF k = "pressure" THEN Val(data[k]) - PRESSURE_OFFSET
                      ELSE Val(data[k])]_vars
\* The flow 12.3 written in the first cycle is still there after the flow
\* fetch of the second cycle failed.
C22_Witness ==
    /\ prog = "river_flow" /\ cycle = 1 /\ pc = "return"
    /\ IsNone(flow_value) /\ RIVERS_FLOW[idx] = 123

MaxDriftCycles == 3
DriftTemps == {1998, 2000, 2003, 2006}
DriftResponses(s) ==
    IF s = 1 THEN {Obs(With(NoKeys, "temp", Num(t)), TRUE) : t \in DriftTemps}
    ELSE {WFailure("urlerror")}
InitDrift ==
    /\ prog = "wunderground"
    /\ pc = "check"
    /\ response = NoLocal
    /\ result = NoLocal
    /\ Startup
W_FetchDrift == W_FetchFrom(DriftResponses(idx))
SleepDrift == SleepUpTo(MaxDriftCycles)
NextDrift ==
    \/ W_Check \/ W_FetchDrift \/ W_LastFetchTime \/ W_LastFetchDuration
    \/ W_Count \/ W_Fields \/ W_Change \/ W_Return \/ W_Polled
    \/ StartServer \/ SleepDrift
SpecDrift == InitDrift /\ [][NextDrift]_vars

\* The distance of the temperature of this cycle from the one read before it.
StepFromLastRead == Abs(Val(current_temp) - before[idx][8])

\* C24: the change detection compares with the cached temperature, not with
\* the last one read: once a temperature is cached, the cache changes only
\* when the reading is at least the tolerance away from the cached value, and
\* then it becomes the reading and temperature_last_change becomes the time of
\* the cycle; temperature_last_change changes only together with the cache; a
\* reading within the tolerance of the last one read but not of the cached
\* value is reported, and one within the tolerance of the cached value but
\* not of the last one read is not.
C24_ComparesWithStored ==
    /\ [][\A s \in Stations :
            /\ (IsNum(previous_temperatures[s])
                    /\ previous_temperatures'[s] # previous_temperatures[s]) =>
                  /\ IsNum(current_temp)
                  /\ Abs(Val(current_temp) - Val(previous_temperatures[s])) >= TOLERANCE
                  /\ previous_temperatures'[s] = current_temp
                  /\ temperature_last_change'[s] = current_time
            /\ (IsNum(previous_temperatures[s])
                    /\ temperature_last_change'[s] # temperature_last_change[s]) =>
                  previous_temperatures'[s] # previous_temperatures[s]]_vars
    /\ [](ChangeTracked =>
            /\ (StepFromLastRead < TOLERANCE /\ TempDiff >= TOLERANCE) => Updated
            /\ (StepFromLastRead >= TOLERANCE /\ TempDiff < TOLERANCE) => Untouched)
\* 20.00 is cached, 20.03 is read and not reported, then 20.06 is read: the
\* change is reported in the third cycle.
C24_Witness ==
    /\ ChangeTracked /\ cycle = 2 /\ idx = 1
    /\ before[1][6] = Num(2000) /\ before[1][8] = 2003 /\ before[1][5] = 1
    /\ current_temp = Num(2006)
    /\ previous_temperatures[1] = Num(2006) /\ temperature_last_change[1] = 3

====
